---- MODULE Spec2Model ----
(***************************************************************************)
(* StegaMind: LSB steganography in the image regions chosen by a block     *)
(* analysis.  The model follows src/image_analyzer.py (ImageAnalyzer) and  *)
(* src/steganography.py (SteganographyEncoder).                            *)
(*                                                                         *)
(* Images are functions from <<y, x, c>> to 0..255 (numpy uint8 arrays of  *)
(* shape (height, width, 3)), masks are functions from <<y, x>> to         *)
(* {0, 255}, bit strings ('0101...') are sequences over {0, 1} and byte    *)
(* strings are sequences over 0..255.  Python indices are 0-based; TLA+    *)
(* sequences are 1-based, so all_bits[i] of the code is all_bits[i + 1].   *)
(*                                                                         *)
(* cv2.imread, cv2.cvtColor, cv2.Canny and np.std are library calls: the   *)
(* decoded image, the Canny edge image and the per-block standard          *)
(* deviations are inputs of the model, drawn from small families.          *)
(***************************************************************************)
EXTENDS Integers, Sequences, FiniteSets, TLC

VARIABLES
    height,               \* image.shape[0]
    width,                \* image.shape[1]
    block_size,           \* self.block_size
    threshold_percentile, \* self.threshold_percentile
    source,               \* the pixels cv2.imread decodes from image_path
    edges,                \* cv2.Canny(self.gray_image, 100, 200): <<y, x>> -> {0, 255}
    texture,              \* np.std of each gray block: <<by, bx>> -> Nat
    pc,                   \* "new", "ready" (constructed) or "failed" (constructor raised)
    image,                \* self.image
    optimal_mask,         \* self.optimal_mask
    optimal_pixels,       \* self.optimal_pixels
    capacity,             \* self.capacity
    result                \* outcome of the last call on the encoder

vars == <<height, width, block_size, threshold_percentile, source, edges, texture,
          pc, image, optimal_mask, optimal_pixels, capacity, result>>

----------------------------------------------------------------------------
(* Bounds of the model. *)

\* largest image side; sides are drawn from Dims
MaxDim == 9
\* largest block_size; block sizes are drawn from BlockSizes
MaxBlock == 4
\* longest text, in characters
MaxTextLen == 2
\* longest file content, in bytes
MaxDataLen == 1
\* longest bit string handed directly to _embed_bits_lsb
MaxBitsLen == 2

\* cv2.imread without flags decodes to 3 channels (B, G, R)
Channels == 3

Dims == {MaxDim \div 3, MaxDim - 1, MaxDim}
BlockSizes == {MaxBlock - 1, MaxBlock}
Percentiles == {0, 30, 75, 100}

Min(a, b) == IF a <= b THEN a ELSE b

----------------------------------------------------------------------------
(* Python / numpy primitives. *)

\* range(n)
Range(n) == 0 .. (n - 1)

RECURSIVE ToBinary(_)
\* the binary digits of n, most significant first, no leading zero ('' for 0)
ToBinary(n) == IF n = 0 THEN << >> ELSE Append(ToBinary(n \div 2), n % 2)

\* format(n, 'b') in place of format(n, '0<w>b'): no zero padding
FormatBinaryUnpadded(n, w) == ToBinary(n)

\* format(n, '0<w>b'): binary, left-padded with '0' to at least w digits
FormatBinary(n, w) ==
    LET digits == ToBinary(n)
        pad    == IF Len(digits) >= w THEN 0 ELSE w - Len(digits)
    IN  [i \in 1..pad |-> 0] \o digits

\* v & 0xFE for 0 <= v <= 255: bit 0 cleared, bits 1..7 kept
AndFE(v) == v - (v % 2)

\* v | b for b in {0, 1}: bit 0 set when b = 1, every other bit kept
OrBit(v, b) == IF v % 2 = 1 THEN v ELSE v + b

\* struct.pack('<I', n): four bytes, least significant first
PackU32LE(n) == [k \in 1..4 |-> (n \div (256 ^ (k - 1))) % 256]

RECURSIVE ConcatRange(_, _, _)
\* ss[lo + 1] \o ... \o ss[hi]
ConcatRange(ss, lo, hi) ==
    IF hi <= lo THEN << >>
    ELSE IF hi = lo + 1 THEN ss[hi]
    ELSE LET mid == (lo + hi) \div 2
         IN  ConcatRange(ss, lo, mid) \o ConcatRange(ss, mid, hi)

\* ''.join(seq_of_strings)
Concat(ss) == ConcatRange(ss, 0, Len(ss))

\* the UTF-8 encoding of one code point of the Basic Multilingual Plane
Utf8Char(cp) ==
    IF cp < 128 THEN <<cp>>
    ELSE IF cp < 2048 THEN <<192 + (cp \div 64), 128 + (cp % 64)>>
    ELSE <<224 + (cp \div 4096), 128 + ((cp \div 64) % 64), 128 + (cp % 64)>>

\* text.encode('utf-8'); a text is a sequence of code points
Utf8Encode(text) == Concat([i \in 1..Len(text) |-> Utf8Char(text[i])])

\* ''.join([format(byte, '08b') for byte in bs])
BytesToBits(bs) == Concat([i \in 1..Len(bs) |-> FormatBinary(bs[i], 8)])

----------------------------------------------------------------------------
(* Floating-point values of the analysis, kept as exact fractions num/den  *)
(* (den > 0, lowest terms) or NaN.                                         *)

RECURSIVE Gcd(_, _)
Gcd(a, b) == IF b = 0 THEN a ELSE Gcd(b, a % b)

Abs(a) == IF a < 0 THEN 0 - a ELSE a

Lcm(a, b) == (a \div Gcd(a, b)) * b

NaN == [nan |-> TRUE, num |-> 0, den |-> 1]

\* the float n/d, d > 0
Frac(n, d) ==
    LET g == Gcd(Abs(n), d)
    IN  [nan |-> FALSE, num |-> n \div g, den |-> d \div g]

FAdd(a, b) ==
    IF a.nan \/ b.nan THEN NaN
    ELSE LET l == Lcm(a.den, b.den)
         IN  Frac(a.num * (l \div a.den) + b.num * (l \div b.den), l)

FSub(a, b) ==
    IF a.nan \/ b.nan THEN NaN
    ELSE LET l == Lcm(a.den, b.den)
         IN  Frac(a.num * (l \div a.den) - b.num * (l \div b.den), l)

FMul(a, b) ==
    IF a.nan \/ b.nan THEN NaN
    ELSE LET g1 == Gcd(Abs(a.num), b.den)
             g2 == Gcd(Abs(b.num), a.den)
         IN  Frac((a.num \div g1) * (b.num \div g2), (a.den \div g2) * (b.den \div g1))

\* a / b for a >= 0, b >= 0: numpy yields nan for 0/0 (with a RuntimeWarning, no
\* exception) and inf for a/0, a > 0; the analysis only divides x - min by
\* max - min, which is 0 only when every x - min is 0
FDiv(a, b) ==
    IF a.nan \/ b.nan \/ b.num = 0 THEN NaN
    ELSE Frac(a.num * b.den, a.den * b.num)

\* a >= b; every comparison with nan is False
FGe(a, b) ==
    IF a.nan \/ b.nan THEN FALSE
    ELSE LET l == Lcm(a.den, b.den)
         IN  a.num * (l \div a.den) >= b.num * (l \div b.den)

FLe(a, b) == FGe(b, a)

----------------------------------------------------------------------------------------------------------------------------------------
(* ImageAnalyzer.  A metric map of shape (hb, wb) is kept as the sequence   *)
(* of its cells in row-major order: cell (by, bx) is m[by * wb + bx + 1].   *)

Pixels(h, w) == Range(h) \X Range(w)

\* the cells of a metric map of shape (h // bs, w // bs)
Blocks(h, w, bs) == Range(h \div bs) \X Range(w \div bs)

NumBlocks(h, w, bs) == (h \div bs) * (w \div bs)

\* the cell (by, bx) at position k (from 0) of the row-major order
BlockAt(k, wb) == <<k \div wb, k % wb>>

\* the slice [k * bs : (k + 1) * bs + 1]: one index too many
BlockSliceInclusive(k, bs, n) == {i \in Range(n) : k * bs <= i /\ i <= (k + 1) * bs}

\* the indices k * bs .. (k + 1) * bs - 1 of the slice [k * bs : (k + 1) * bs] of
\* an axis of length n (a slice is clipped to the axis)
BlockSlice(k, bs, n) == {i \in Range(n) : k * bs <= i /\ i < (k + 1) * bs}

RECURSIVE Tabulate(_, _, _)
\* <<F(lo), ..., F(hi - 1)>>
Tabulate(F(_), lo, hi) ==
    IF hi <= lo THEN << >>
    ELSE IF hi = lo + 1 THEN <<F(lo)>>
    ELSE LET mid == (lo + hi) \div 2
         IN  Tabulate(F, lo, mid) \o Tabulate(F, mid, hi)

RECURSIVE SumRange(_, _, _, _)
\* the sum of f[<<k \div w, k % w>>] over lo <= k < hi
SumRange(f, w, lo, hi) ==
    IF hi <= lo THEN 0
    ELSE IF hi = lo + 1 THEN f[<<lo \div w, lo % w>>]
    ELSE LET mid == (lo + hi) \div 2
         IN  SumRange(f, w, lo, mid) + SumRange(f, w, mid, hi)

\* np.sum of an array f of shape (h, w)
NpSum(f, h, w) == SumRange(f, w, 0, h * w)

\* edges[y1:y2, x1:x2] of block b, as an array of shape (bs, bs)
EdgeBlock(edg, b, bs) ==
    [p \in Range(bs) \X Range(bs) |-> edg[<<b[1] * bs + p[1], b[2] * bs + p[2]>>]]

\* calculate_edge_density: np.sum(block) / (block_size * block_size) per block
calculate_edge_density(h, w, bs, edg) ==
    Tabulate(LAMBDA k : Frac(NpSum(EdgeBlock(edg, BlockAt(k, w \div bs), bs), bs, bs),
                             bs * bs),
             0, NumBlocks(h, w, bs))

\* calculate_texture_complexity: np.std(block) per block; tex holds the
\* standard deviations
calculate_texture_complexity(h, w, bs, tex) ==
    Tabulate(LAMBDA k : Frac(tex[BlockAt(k, w \div bs)], 1), 0, NumBlocks(h, w, bs))

\* combined_map = 0.5 * edge_map + 0.5 * texture_map
CombinedMap(h, w, bs, edg, tex) ==
    LET edge_map    == calculate_edge_density(h, w, bs, edg)
        texture_map == calculate_texture_complexity(h, w, bs, tex)
        half        == Frac(1, 2)
    IN  Tabulate(LAMBDA k : FAdd(FMul(half, edge_map[k + 1]),
                                 FMul(half, texture_map[k + 1])),
                 0, NumBlocks(h, w, bs))

RECURSIVE MinRange(_, _, _)
\* the least of m[lo + 1 .. hi], lo < hi
MinRange(m, lo, hi) ==
    IF hi = lo + 1 THEN m[hi]
    ELSE LET mid == (lo + hi) \div 2
             a   == MinRange(m, lo, mid)
             b   == MinRange(m, mid, hi)
         IN  IF FLe(a, b) THEN a ELSE b

RECURSIVE MaxRange(_, _, _)
\* the greatest of m[lo + 1 .. hi], lo < hi
MaxRange(m, lo, hi) ==
    IF hi = lo + 1 THEN m[hi]
    ELSE LET mid == (lo + hi) \div 2
             a   == MaxRange(m, lo, mid)
             b   == MaxRange(m, mid, hi)
         IN  IF FGe(a, b) THEN a ELSE b

\* np.min(m), np.max(m) of a non-empty map without nan
NpMin(m) == MinRange(m, 0, Len(m))
NpMax(m) == MaxRange(m, 0, Len(m))

\* (combined_map - np.min(combined_map)) / (np.max(combined_map) - np.min(combined_map))
NormalizedMap(m) ==
    LET lo    == NpMin(m)
        range == FSub(NpMax(m), lo)
    IN  Tabulate(LAMBDA k : FDiv(FSub(m[k + 1], lo), range), 0, Len(m))

RECURSIVE Merge(_, _)
\* two ascending sequences merged into one
Merge(a, b) ==
    IF a = << >> THEN b
    ELSE IF b = << >> THEN a
    ELSE IF FLe(Head(a), Head(b)) THEN <<Head(a)>> \o Merge(Tail(a), b)
    ELSE <<Head(b)>> \o Merge(a, Tail(b))

RECURSIVE SortRange(_, _, _)
\* m[lo + 1 .. hi] in ascending order
SortRange(m, lo, hi) ==
    IF hi <= lo THEN << >>
    ELSE IF hi = lo + 1 THEN <<m[hi]>>
    ELSE LET mid == (lo + hi) \div 2
         IN  Merge(SortRange(m, lo, mid), SortRange(m, mid, hi))

HasNaN(m) == \E k \in 1..Len(m) : m[k].nan

\* np.percentile(m, q), linear interpolation: with the n values sorted ascending,
\* position q / 100 * (n - 1), between the value at its floor and the next one;
\* nan when the map holds a nan
Percentile(m, q) ==
    IF HasNaN(m) THEN NaN
    ELSE LET sorted == SortRange(m, 0, Len(m))
             n      == Len(sorted)
             pos    == q * (n - 1)
             lo     == pos \div 100
             hi     == Min(lo + 1, n - 1)
             gamma  == Frac(pos % 100, 100)
             a      == sorted[lo + 1]
             b      == sorted[hi + 1]
         IN  FAdd(a, FMul(FSub(b, a), gamma))

\* combined_map > threshold
AboveThresholdStrict(v, threshold) == FGe(v, threshold) /\ ~FGe(threshold, v)

\* one cell of combined_map >= threshold
AboveThreshold(v, threshold) == FGe(v, threshold)

\* optimal_regions = combined_map >= threshold, a boolean map
OptimalRegions(h, w, bs, edg, tex, q) ==
    LET norm      == NormalizedMap(CombinedMap(h, w, bs, edg, tex))
        threshold == Percentile(norm, q)
    IN  Tabulate(LAMBDA k : AboveThreshold(norm[k + 1], threshold), 0, Len(norm))

\* the pixels mask[y1:y2, x1:x2] of block b
BlockPixels(b, bs, h, w) == BlockSlice(b[1], bs, h) \X BlockSlice(b[2], bs, w)

\* the mask built from optimal_regions: zeros, then 255 on each selected block
MaskOf(regions, h, w, bs) ==
    [p \in Pixels(h, w) |->
        IF \E k \in 1..Len(regions) :
              regions[k] /\ p \in BlockPixels(BlockAt(k - 1, w \div bs), bs, h, w)
        THEN 255 ELSE 0]

\* detect_optimal_regions(block_size, threshold_percentile)[1]; np.min of an empty
\* map raises ValueError, so the caller checks NumBlocks(h, w, bs) > 0 first
detect_optimal_regions(h, w, bs, edg, tex, q) ==
    MaskOf(OptimalRegions(h, w, bs, edg, tex, q), h, w, bs)

\* visualize_analysis: capacity_bytes computed from the mask
visualize_capacity_bytes(mask, h, w) ==
    LET optimal == NpSum(mask, h, w) \div 255
    IN  optimal \div 8

----------------------------------------------------------------------------
(* SteganographyEncoder *)

\* no image (Python None)
None == << >>

\* __init__: self.capacity = (np.sum(self.optimal_mask) // 255) * 3 // 8
CapacityOf(mask, h, w) ==
    LET optimal == NpSum(mask, h, w) \div 255
    IN  (optimal * 3) \div 8

\* `for y: for c: for x:`, the two inner loops swapped
SiteAtChannelRows(k, w, ch) == <<k \div (w * ch), k % w, (k \div w) % ch>>

\* the (y, x, c) of iteration k of `for y: for x: for c:` over (h, w, ch)
SiteAt(k, w, ch) == <<k \div (w * ch), (k \div ch) % w, k % ch>>

RECURSIVE ScanSites(_, _, _, _, _)
\* the coordinates appended by iterations lo .. hi - 1 of the nested loops
ScanSites(mask, w, ch, lo, hi) ==
    IF hi <= lo THEN << >>
    ELSE IF hi = lo + 1
    THEN LET site == SiteAt(lo, w, ch)
         IN  IF mask[<<site[1], site[2]>>] = 255 THEN <<site>> ELSE << >>
    ELSE LET mid == (lo + hi) \div 2
         IN  ScanSites(mask, w, ch, lo, mid) \o ScanSites(mask, w, ch, mid, hi)

_get_optimal_pixels(mask, h, w, ch) == ScanSites(mask, w, ch, 0, h * w * ch)

_text_to_bits(text) == BytesToBits(Utf8Encode(text))

\* all_bytes of _file_to_bits; a file is [name |-> its base name, data |-> its bytes]
FileFrame(file) ==
    LET file_name_bytes == Utf8Encode(file.name)
    IN  PackU32LE(Len(file_name_bytes)) \o file_name_bytes
        \o PackU32LE(Len(file.data)) \o file.data

_file_to_bits(file) == BytesToBits(FileFrame(file))

_check_capacity(data_bits, sites) == Len(data_bits) + 32 <= Len(sites)

\* pixel_value | int(bit): the lowest bit is not cleared first
NewValueNoClear(pixel_value, bit) == OrBit(pixel_value, bit)

\* new_value = (pixel_value & 0xFE) | int(bit)
NewValue(pixel_value, bit) == OrBit(AndFE(pixel_value), bit)

\* the iterations of `for i, bit in enumerate(all_bits)` that run: the loop
\* breaks at the first i >= len(self.optimal_pixels)
LoopCount(total_bits, available) == Min(total_bits, available)

RECURSIVE EmbedLoop(_, _, _, _, _)
\* iterations lo .. hi - 1 of the loop (0-based i), on the buffer stego: the first
\* half of the iterations, then the second half on the buffer the first half
\* leaves (an assignment to stego_image[y, x, c] keeps the buffer's shape)
EmbedLoop(stego, all_bits, sites, lo, hi) ==
    IF hi <= lo THEN stego
    ELSE IF hi = lo + 1
    THEN [stego EXCEPT ![sites[lo + 1]] = NewValue(@, all_bits[lo + 1])]
    ELSE LET mid  == (lo + hi) \div 2
             half == EmbedLoop(stego, all_bits, sites, lo, mid)
         IN  IF DOMAIN half = DOMAIN stego
             THEN EmbedLoop(half, all_bits, sites, mid, hi)
             ELSE half

\* the capacity test without the 32 bits of the length prefix
EmbedRejectsPayloadOnly(total_bits, available) == total_bits - 32 > available

\* `if total_bits > len(self.optimal_pixels): raise ValueError`
EmbedRejects(total_bits, available) == total_bits > available

\* np.zeros_like(self.image) in place of self.image.copy()
ImageZeros(img) == [s \in DOMAIN img |-> 0]

\* stego_image = self.image.copy()
ImageCopy(img) == img

\* self.image had stego been self.image itself and not a copy: the writes of
\* the loop land in self.image
ImageAliased(img, stego) == stego

\* self.image once _embed_bits_lsb has written into stego: stego is a copy, a
\* buffer of its own, so the writes do not reach self.image
ImageAfterEmbed(img, stego) == img

\* _embed_bits_lsb(bits) on self.image = img, self.optimal_pixels = sites
_embed_bits_lsb(img, sites, bits) ==
    LET length_bits == FormatBinary(Len(bits), 32)
        all_bits    == length_bits \o bits
        total_bits  == Len(all_bits)
    IN  IF EmbedRejects(total_bits, Len(sites))
        THEN [raised |-> "ValueError", stego |-> None, image |-> img,
              reported |-> [unit |-> "bits", required |-> total_bits,
                            available |-> Len(sites)]]
        ELSE LET stego == EmbedLoop(ImageCopy(img), all_bits, sites, 0,
                                    LoopCount(total_bits, Len(sites)))
             IN  [raised |-> "none", stego |-> stego,
                  image |-> ImageAfterEmbed(img, stego),
                  reported |-> [unit |-> "none", required |-> 0, available |-> 0]]

\* the body shared by encode_text and encode_file once the payload is in bits:
\* capacity check, embed, cv2.imwrite
EncodeBits(op, bits, payload, img, sites, cap) ==
    IF ~_check_capacity(bits, sites)
    THEN [op |-> op, raised |-> "ValueError", bits |-> bits, payload |-> payload,
          stego |-> None, written |-> None, image |-> img, capacity_bytes |-> 0,
          reported |-> [unit |-> "octets", required |-> Len(bits) \div 8,
                        available |-> cap]]
    ELSE LET e == _embed_bits_lsb(img, sites, bits)
         IN  [op |-> op, raised |-> e.raised, bits |-> bits, payload |-> payload,
              stego |-> e.stego, written |-> e.stego, image |-> e.image,
              capacity_bytes |-> 0, reported |-> e.reported]

NoResult ==
    [op |-> "none", raised |-> "none", bits |-> << >>, payload |-> << >>,
     stego |-> None, written |-> None, image |-> None, capacity_bytes |-> 0,
     reported |-> [unit |-> "none", required |-> 0, available |-> 0]]

\* the outcome of a direct call of _embed_bits_lsb(bits)
EmbedCall(bits, img, sites) ==
    LET e == _embed_bits_lsb(img, sites, bits)
    IN  [op |-> "_embed_bits_lsb", raised |-> e.raised, bits |-> bits,
         payload |-> << >>, stego |-> e.stego, written |-> None, image |-> e.image,
         capacity_bytes |-> 0, reported |-> e.reported]

----------------------------------------------------------------------------
(* Inputs *)

\* sequences over S of length at most n
SeqsUpTo(S, n) == UNION {[1..k -> S] : k \in 0..n}

\* 'A' and e-acute: one and two bytes of UTF-8
Alphabet == {65, 233}
Texts == SeqsUpTo(Alphabet, MaxTextLen)
FileNames == {<<97>>, <<233>>}
Files == [name : FileNames, data : SeqsUpTo({0, 255}, MaxDataLen)]
\* a path at which no file exists
NoFile == [name |-> << >>, data |-> << >>]
BitStrings == SeqsUpTo({0, 1}, MaxBitsLen)

\* what the analysis sees in the image: nothing ("uniform"), edges along the last
\* pixel row ("last_row"), a texture that differs in every block ("raster"),
\* edges along the diagonal over a texture gradient ("diagonal")
Scenes == {"uniform", "last_row", "raster", "diagonal"}

\* a Canny edge image: 255 on edge pixels, 0 elsewhere
EdgeImage(scene, h, w) ==
    [p \in Pixels(h, w) |->
        IF \/ scene = "last_row" /\ p[1] = h - 1
           \/ scene = "diagonal" /\ p[1] = p[2]
        THEN 255 ELSE 0]

\* the standard deviation of each gray block
TextureMap(scene, h, w, bs) ==
    [b \in Blocks(h, w, bs) |->
        CASE scene = "raster" -> b[1] * (w \div bs) + b[2]
          [] scene = "diagonal" -> b[1] + b[2]
          [] OTHER -> 0]

\* the decoded pixels of an image file: values over all of 0..255, 0 and 255
\* included
SourceImage(h, w) ==
    [s \in Range(h) \X Range(w) \X Range(Channels) |->
        (255 + 85 * s[1] + 29 * s[2] + 127 * s[3]) % 256]

----------------
(* The encoder as a state machine *)

Init ==
    /\ height \in Dims
    /\ width \in Dims
    /\ block_size \in BlockSizes
    /\ threshold_percentile \in Percentiles
    /\ source = SourceImage(height, width)
    /\ \E scene \in Scenes :
          /\ edges = EdgeImage(scene, height, width)
          /\ texture = TextureMap(scene, height, width, block_size)
    /\ pc = "new"
    /\ image = None
    /\ optimal_mask = << >>
    /\ optimal_pixels = << >>
    /\ capacity = 0
    /\ result = NoResult

\* SteganographyEncoder.__init__(image_path, block_size, threshold_percentile)
Construct ==
    /\ pc = "new"
    /\ IF NumBlocks(height, width, block_size) = 0
       THEN \* np.min of an empty map raises ValueError
            /\ pc' = "failed"
            /\ UNCHANGED <<image, optimal_mask, optimal_pixels, capacity>>
       ELSE LET mask == detect_optimal_regions(height, width, block_size, edges,
                                               texture, threshold_percentile)
            IN  /\ pc' = "ready"
                /\ optimal_mask' = mask
                /\ capacity' = CapacityOf(mask, height, width)
                /\ image' = source
                /\ optimal_pixels' = _get_optimal_pixels(mask, height, width, Channels)
    /\ UNCHANGED <<height, width, block_size, threshold_percentile, source, edges,
                   texture, result>>

\* what a call leaves behind: self.image and the call's outcome
Finish(r) ==
    /\ image' = r.image
    /\ result' = r
    /\ UNCHANGED <<height, width, block_size, threshold_percentile, source, edges,
                   texture, pc, optimal_mask, optimal_pixels, capacity>>

\* encode_text(secret_text)
EncodeText ==
    /\ pc = "ready"
    /\ \E text \in Texts :
          Finish(EncodeBits("encode_text", _text_to_bits(text), Utf8Encode(text),
                            image, optimal_pixels, capacity))

\* encode_file(file_path); NoFile is a path with os.path.exists(file_path) False
EncodeFile ==
    /\ pc = "ready"
    /\ \E file \in Files \cup {NoFile} :
          IF file = NoFile
          THEN Finish([NoResult EXCEPT !.op = "encode_file",
                                       !.raised = "FileNotFoundError",
                                       !.image = image])
          ELSE Finish(EncodeBits("encode_file", _file_to_bits(file), FileFrame(file),
                                 image, optimal_pixels, capacity))

\* _embed_bits_lsb(bits) called directly
EmbedBitsLsb ==
    /\ pc = "ready"
    /\ \E bits \in BitStrings :
          Finish(EmbedCall(bits, image, optimal_pixels))

\* self.analyzer.visualize_analysis(block_size, threshold_percentile)
VisualizeAnalysis ==
    /\ pc = "ready"
    /\ LET mask == detect_optimal_regions(height, width, block_size, edges, texture,
                                          threshold_percentile)
       IN  Finish([NoResult EXCEPT !.op = "visualize_analysis", !.image = image,
                                   !.capacity_bytes =
                                       visualize_capacity_bytes(mask, height, width)])

Next == Construct \/ EncodeText \/ EncodeFile \/ EmbedBitsLsb \/ VisualizeAnalysis

Spec == Init /\ [][Next]_vars

----------------------------------------------------------------------------
(* Vocabulary of the properties *)

EmbedOps == {"encode_text", "encode_file", "_embed_bits_lsb"}

\* the last call embedded a payload and returned
Embedded == pc = "ready" /\ result.op \in EmbedOps /\ result.raised = "none"

\* the last call was rejected for lack of capacity
Rejected == pc = "ready" /\ result.op \in EmbedOps /\ result.raised = "ValueError"

NumSites == Len(optimal_pixels)

\* the analysis of the encoder's image with its parameters
Combined == CombinedMap(height, width, block_size, edges, texture)
Normalized == NormalizedMap(Combined)
Uniform == NpMax(Combined) = NpMin(Combined)

\* block k (from 1, row-major) as the mask shows it: its top-left pixel is 255
MaskSelects(k) ==
    LET b == BlockAt(k - 1, width \div block_size)
    IN  optimal_mask[<<b[1] * block_size, b[2] * block_size>>] = 255

RECURSIVE BitsValue(_, _, _)
\* the number whose binary digits, most significant first, are bits[lo + 1 .. hi]
BitsValue(bits, lo, hi) ==
    IF hi <= lo THEN 0
    ELSE IF hi = lo + 1 THEN bits[hi]
    ELSE LET mid == (lo + hi) \div 2
         IN  BitsValue(bits, lo, mid) * (2 ^ (hi - mid)) + BitsValue(bits, mid, hi)

\* the least significant bits of img at sites[from + 1 .. from + n]
ReadLsbs(img, sites, from, n) == [i \in 1..n |-> img[sites[from + i]] % 2]

\* a bit string, 8 bits per byte and most significant bit first, as bytes
BitsToBytes(bits) == [k \in 1..(Len(bits) \div 8) |-> BitsValue(bits, 8 * (k - 1), 8 * k)]

----------------------------------------------------------------------------
(* C1: round trip.  After a successful embed of a payload with                *)
(* 32 + |bits| <= |SiteOrder|, reading the least significant bits of the      *)
(* stego image in the order of optimal_pixels gives, on the first 32 sites,   *)
(* the payload's bit length L as a 32-bit number, most significant bit first, *)
(* and on the next L sites the payload's bit string; its bytes are the        *)
(* payload's bytes (the UTF-8 text, or the framed file).                      *)
C1_RoundTrip ==
    (Embedded /\ Len(result.bits) + 32 <= NumSites) =>
        LET head == ReadLsbs(result.stego, optimal_pixels, 0, 32)
            L    == BitsValue(head, 0, 32)
        IN  /\ head[1] = 0
            /\ L = Len(result.bits)
            /\ ReadLsbs(result.stego, optimal_pixels, 32, L) = result.bits
            /\ result.op # "_embed_bits_lsb" =>
                  BitsToBytes(ReadLsbs(result.stego, optimal_pixels, 32, L))
                     = result.payload

\* a file with a name and one byte of data was embedded
C1_Witness ==
    /\ Embedded
    /\ result.op = "encode_file"
    /\ Len(result.payload) >= 10
    /\ Len(result.bits) + 32 <= NumSites

(* C2: capacity gate.  A call of encode_text, encode_file (on an existing     *)
(* file) or _embed_bits_lsb whose payload has 32 + |bits| > |SiteOrder| ends  *)
(* in the capacity error, returns no stego image, writes none, and leaves     *)
(* self.image as it was before the call.                                      *)
C2_CapacityGate ==
    [][(/\ pc = "ready"
        /\ result'.op \in EmbedOps
        /\ result'.raised # "FileNotFoundError"
        /\ 32 + Len(result'.bits) > NumSites)
       => (/\ result'.raised = "ValueError"
           /\ result'.stego = None
           /\ result'.written = None
           /\ image' = image)]_vars

\* the three operations were each rejected on an encoder that has sites, but too
\* few of them: here the direct call
C2_Witness ==
    /\ Rejected
    /\ result.op = "_embed_bits_lsb"
    /\ NumSites > 0
    /\ 32 + Len(result.bits) > NumSites

(* C3: non-interference.  In the stego image of a successful embed, every     *)
(* (row, column, channel) outside optimal_pixels, and every site of           *)
(* optimal_pixels at an index >= 32 + |bits|, holds the value of the source   *)
(* image.                                                                     *)
C3_NonInterference ==
    Embedded =>
        /\ DOMAIN result.stego = DOMAIN image
        /\ \A s \in DOMAIN image :
              (\A i \in 1..Min(32 + Len(result.bits), NumSites) : optimal_pixels[i] # s)
                 => result.stego[s] = image[s]

\* an embed that left both kinds of site untouched: pixels outside the mask, and
\* sites of optimal_pixels past the payload
C3_Witness ==
    /\ Embedded
    /\ Len(result.bits) > 0
    /\ 32 + Len(result.bits) < NumSites
    /\ NumSites < height * width * Channels

(* C4: capacity error report.  A capacity error reports the required bit      *)
(* count 32 + |bits| and the available bit count |SiteOrder|.                  *)
C4_ErrorReportsBits ==
    Rejected =>
        /\ result.reported.unit = "bits"
        /\ result.reported.required = 32 + Len(result.bits)
        /\ result.reported.available = NumSites

(* C5: reported capacity.  The capacity in bytes of SteganographyEncoder and  *)
(* the capacity_bytes of visualize_analysis both equal |SiteOrder| div 8.     *)
C5_ReportedCapacity ==
    pc = "ready" =>
        /\ capacity = NumSites \div 8
        /\ result.op = "visualize_analysis" => result.capacity_bytes = NumSites \div 8

(* C6: inclusive percentile threshold.  For a map that is not uniform, the    *)
(* mask selects a block iff its normalized score is >= the percentile of the  *)
(* normalized map; at percentile 0 every block is selected, and the site list *)
(* is at least as long as at any other percentile; at percentile 100 exactly  *)
(* the blocks whose score is the maximum are selected, ties included.         *)
C6_InclusiveThreshold ==
    (pc = "ready" /\ ~Uniform) =>
        LET threshold == Percentile(Normalized, threshold_percentile)
            cells     == 1..Len(Normalized)
        IN  /\ \A k \in cells : MaskSelects(k) <=> FGe(Normalized[k], threshold)
            /\ threshold_percentile = 0 =>
                  /\ \A k \in cells : MaskSelects(k)
                  /\ \A q \in Percentiles :
                        NumSites >= Len(_get_optimal_pixels(
                                           detect_optimal_regions(height, width, block_size,
                                                                  edges, texture, q),
                                           height, width, Channels))
            /\ threshold_percentile = 100 =>
                  \A k \in cells : MaskSelects(k) <=> Combined[k] = NpMax(Combined)

\* percentile 100 on a map whose maximum is reached by two blocks and missed by
\* another: the two are selected, the other is not
C6_Witness ==
    /\ pc = "ready"
    /\ ~Uniform
    /\ threshold_percentile = 100
    /\ \E j, k \in 1..Len(Combined) : j # k /\ MaskSelects(j) /\ MaskSelects(k)
    /\ \E k \in 1..Len(Combined) : ~MaskSelects(k)

(* C7: uniform-image fallback.  When every block has the same combined score, *)
(* the normalization and the threshold hold no undefined value.               *)
C7_UniformFallback ==
    (pc = "ready" /\ Uniform) =>
        /\ ~HasNaN(Normalized)
        /\ ~Percentile(Normalized, threshold_percentile).nan

(* C8: embedded bit layout.  After a successful embed, with fullBits the      *)
(* payload's bit length as 32 bits, most significant first, followed by the   *)
(* payload's bits, the stego value at the i-th site of optimal_pixels is the  *)
(* source value with its lowest bit replaced by fullBits[i]: the upper seven  *)
(* bits are the source's, and the value is in 0..255.                         *)
C8_BitLayout ==
    Embedded =>
        LET n        == Len(result.bits)
            \* n < 2^31, so the first of the 32 bits is 0
            length   == [i \in 1..32 |-> IF i = 1 THEN 0 ELSE (n \div (2 ^ (32 - i))) % 2]
            fullBits == length \o result.bits
        IN  /\ Len(fullBits) <= NumSites
            /\ \A i \in 1..Len(fullBits) :
                  LET v   == result.stego[optimal_pixels[i]]
                      src == image[optimal_pixels[i]]
                  IN  /\ v \in 0..255
                      /\ v = 2 * (src \div 2) + fullBits[i]

\* an embed that had to clear the lowest bit of a 255 and to set the lowest bit
\* of an even value
C8_Witness ==
    /\ Embedded
    /\ Len(result.bits) > 0
    /\ \E i \in 1..(32 + Len(result.bits)) :
          image[optimal_pixels[i]] = 255 /\ result.stego[optimal_pixels[i]] = 254
    /\ \E i \in 1..(32 + Len(result.bits)) :
          image[optimal_pixels[i]] % 2 = 0 /\ result.stego[optimal_pixels[i]] % 2 = 1

\* (y1, x1, c1) before (y2, x2, c2) in lexicographic order
LexLess(a, b) ==
    \/ a[1] < b[1]
    \/ a[1] = b[1] /\ a[2] < b[2]
    \/ a[1] = b[1] /\ a[2] = b[2] /\ a[3] < b[3]

(* C9: site order.  optimal_pixels holds sites of masked pixels only, is      *)
(* strictly increasing in the lexicographic order of (row, column, channel),  *)
(* so holds no site twice, has one site per masked pixel and channel, and is  *)
(* what a second derivation from the same mask gives.                         *)
C9_SiteOrder ==
    pc = "ready" =>
        /\ \A i \in 1..NumSites :
              /\ optimal_pixels[i] \in Range(height) \X Range(width) \X Range(Channels)
              /\ optimal_mask[<<optimal_pixels[i][1], optimal_pixels[i][2]>>] = 255
        /\ \A i \in 1..(NumSites - 1) : LexLess(optimal_pixels[i], optimal_pixels[i + 1])
        /\ NumSites
              = Channels * Cardinality({p \in Pixels(height, width) : optimal_mask[p] = 255})
        /\ optimal_pixels = _get_optimal_pixels(optimal_mask, height, width, Channels)

\* a mask that selects pixels of several rows and columns, and leaves some out
C9_Witness ==
    /\ pc = "ready"
    /\ NumSites < height * width * Channels
    /\ \E i, j \in 1..NumSites :
          /\ optimal_pixels[i][1] # optimal_pixels[j][1]
          /\ optimal_pixels[i][2] # optimal_pixels[j][2]

(* C10: block-granular mask.  Every pixel of a full block_size x block_size   *)
(* tile has the mask value of its block, 255 iff the block is selected, and   *)
(* every pixel of the trailing rows and columns that fill no full block is 0  *)
(* and is in no site of optimal_pixels.                                       *)
C10_BlockGranular ==
    pc = "ready" =>
        LET hb      == height \div block_size
            wb      == width \div block_size
            regions == OptimalRegions(height, width, block_size, edges, texture,
                                      threshold_percentile)
        IN  /\ \A p \in Pixels(height, width) :
                  IF p[1] < hb * block_size /\ p[2] < wb * block_size
                  THEN optimal_mask[p]
                          = (IF regions[(p[1] \div block_size) * wb
                                        + (p[2] \div block_size) + 1]
                             THEN 255 ELSE 0)
                  ELSE optimal_mask[p] = 0
            /\ \A i \in 1..NumSites :
                  /\ optimal_pixels[i][1] < hb * block_size
                  /\ optimal_pixels[i][2] < wb * block_size

\* an image with trailing rows and columns, a selected block next to them and an
\* unselected block
C10_Witness ==
    /\ pc = "ready"
    /\ height % block_size # 0
    /\ width % block_size # 0
    /\ MaskSelects(NumBlocks(height, width, block_size))
    /\ \E k \in 1..NumBlocks(height, width, block_size) : ~MaskSelects(k)

(* C11: encoder state across calls.  Every call on a constructed encoder      *)
(* (encode_text, encode_file, _embed_bits_lsb, successful or failing) leaves   *)
(* self.image, self.optimal_mask, self.optimal_pixels and self.capacity as     *)
(* they were before the call, and self.image is still the image read at        *)
(* construction; so the stego image of a call is the embed of its own bits     *)
(* into the original image, and past its own first 32 + |bits| sites it holds  *)
(* the original values, also where the call before it had written its payload. *)
C11_StateImmutable ==
    [][pc = "ready" =>
          /\ image' = image
          /\ optimal_mask' = optimal_mask
          /\ optimal_pixels' = optimal_pixels
          /\ capacity' = capacity
          /\ image' = source
          /\ (result'.op \in EmbedOps /\ result'.raised = "none") =>
                /\ result'.stego =
                      EmbedLoop(source, FormatBinary(Len(result'.bits), 32) \o result'.bits,
                                optimal_pixels, 0, 32 + Len(result'.bits))
                /\ \A i \in 1..NumSites :
                      i > 32 + Len(result'.bits)
                         => result'.stego[optimal_pixels[i]] = source[optimal_pixels[i]]
    ]_vars

\* an encoder whose last call embedded a payload and changed pixels of its stego
\* image, while the encoder still holds the original image and sites to spare
\* past the payload
C11_Witness ==
    /\ Embedded
    /\ Len(result.bits) > 0
    /\ \E i \in 1..(32 + Len(result.bits)) :
          result.stego[optimal_pixels[i]] # source[optimal_pixels[i]]
    /\ image = source
    /\ 32 + Len(result.bits) < NumSites

====
